---- MODULE Spec2Model ----
(***************************************************************************)
(* Huffman-style bit packer: the inline Compressor driven by               *)
(* Huffman::compress (lib.rs) and the streaming Compressor built on        *)
(* CompressorBuffer (compressor.rs, compressor/buffer.rs).                 *)
(*                                                                         *)
(* A u32 is modelled as a function from bit position (0 = least            *)
(* significant) to {0,1}, so that shifts, masks and the `as u8` cast are   *)
(* computed bit by bit at their real width.  Arithmetic overflow and       *)
(* over-wide shifts depend on the build profile: with overflow checks      *)
(* (dev/test profile) they panic, without them (release profile) the       *)
(* shift amount is masked to 5 bits and u8 arithmetic wraps modulo 256.    *)
(***************************************************************************)
EXTENDS Integers, Sequences, FiniteSets, TLC

VARIABLES
    overflow_checks,   \* build profile: TRUE = overflow checks on (dev/test)
    table,             \* Huffman.table
    terminal_code,     \* Huffman.terminal_code (None or a TerminalCode)
    pc,                \* position inside Huffman::compress
    src,               \* input bytes not yet consumed by the for loop
    compressor,        \* the local Compressor of Huffman::compress
    output,            \* the caller's output Vec<u8>
    calls,             \* number of compress calls started
    call_src,          \* history: the input of the current call
    output_before,     \* history: output as it was when the call started
    compressor_before, \* history: the compressor the previous call left
    write_log,         \* history: the buffer writes of the current call
    lost_bits,         \* history: a write of this call pushed the count past 32
    read_after_loss,   \* history: a byte was read after such a write
    buffer,            \* the CompressorBuffer of the streaming Compressor
    s_pc,              \* streaming Compressor: "live" or "panicked"
    ops,               \* number of streaming operations performed
    last_op,           \* history: the last streaming operation
    prev_buffer,       \* history: buffer before the last streaming operation
    bit_log,           \* history: every bit written to buffer, in write order
    read_log,          \* history: every byte read_byte returned
    in_contract,       \* history: every write so far was well-formed and
                       \* kept the bit count within 32
    runs               \* concurrent runs: one streaming Compressor each, all
                       \* reading the same table

vars == << overflow_checks, table, terminal_code, pc, src, compressor, output,
           calls, call_src, output_before, compressor_before, write_log,
           lost_bits, read_after_loss, buffer, s_pc, ops, last_op, prev_buffer, bit_log,
           read_log, in_contract, runs >>

facade_vars == << pc, src, compressor, output, calls, call_src, output_before,
                  compressor_before, write_log, lost_bits, read_after_loss >>

stream_vars == << buffer, s_pc, ops, last_op, prev_buffer, bit_log, read_log,
                  in_contract >>

config_vars == << overflow_checks, table, terminal_code >>

par_vars == << runs >>

-----------------------------------------------------------------------------
(* Bounds of the model *)

MaxSrcLen == 2      \* longest input of one compress call
MaxCalls == 2       \* compress calls on one Huffman instance
MaxOps == 5         \* operations on one streaming Compressor
MaxFairCalls == 1   \* compress calls in a behaviour of SpecFair
MaxParOps == 3      \* operations of all concurrent runs together

-----------------------------------------------------------------------------
(* u32 / u8 arithmetic *)

Width == 32
U8Modulus == 256
BitPos == 0..(Width - 1)

\* Option<T>
None == [some |-> FALSE]
Some(x) == [some |-> TRUE, val |-> x]

Zero32 == [i \in BitPos |-> 0]

\* u32::MAX
U32_MAX == [i \in BitPos |-> 1]

\* the u32 with the value n, for 0 <= n < 2^31
U32(n) == [i \in BitPos |-> IF i = Width - 1 THEN 0 ELSE (n \div (2 ^ i)) % 2]

\* x << n on u32, 0 <= n < 32: bits shifted past position 31 are dropped
Shl(x, n) == [i \in BitPos |-> IF i >= n THEN x[i - n] ELSE 0]

\* x >> n on u32, 0 <= n < 32
Shr(x, n) == [i \in BitPos |-> IF i + n < Width THEN x[i + n] ELSE 0]

\* x | y
BitOr(x, y) == [i \in BitPos |-> IF x[i] = 1 \/ y[i] = 1 THEN 1 ELSE 0]

\* x & y
BitAnd(x, y) == [i \in BitPos |-> IF x[i] = 1 /\ y[i] = 1 THEN 1 ELSE 0]

\* x as u8: the low 8 bits
AsU8(x) == x[0] + 2 * x[1] + 4 * x[2] + 8 * x[3] + 16 * x[4] + 32 * x[5]
           + 64 * x[6] + 128 * x[7]

-----------------------------------------------------------------------------
(* huffman_table.rs / lib.rs: HuffmanTable, TerminalCode *)

Syms == {160, 203}               \* the byte values 0xA0 and 0xCB

HuffmanTable(va, ba, vb, bb) ==
    [values     |-> (160 :> va) @@ (203 :> vb),
     bit_counts |-> (160 :> ba) @@ (203 :> bb)]

TerminalCode(v, n) == [value |-> v, bit_count |-> n]

\* short codes, as in the tests of lib.rs: 0b01 and 0b11111
TableShort == HuffmanTable(U32(1), 2, U32(31), 5)
\* whole-byte codes: 0xFF00 on 16 bits and 0x80 on 8 bits
TableBytes == HuffmanTable(U32(65280), 16, U32(128), 8)
\* a 7-bit code 0b1000000 and a 26-bit code with its top and bottom bit set
TableWide == HuffmanTable(U32(64), 7, U32(33554433), 26)
\* a 32-bit code and a 3-bit code
TableFull == HuffmanTable(U32_MAX, 32, U32(5), 3)
\* an empty code and a 1-bit code
TableEmpty == HuffmanTable(Zero32, 0, U32(1), 1)
\* 0xA0 is 0b110 declared 2 bits long, 0xCB is 0b1 declared 0 bits long
TableMalformed == HuffmanTable(U32(6), 2, U32(1), 0)

\* a 7-bit code 0b1000000 and a 25-bit code with its top and bottom bit set
TableSafe == HuffmanTable(U32(64), 7, U32(16777217), 25)

Tables == {TableShort, TableBytes, TableWide, TableFull, TableEmpty,
           TableMalformed}

\* tables around the longest code that is safe behind 7 queued bits
BoundaryTables == {TableShort, TableSafe, TableWide}

TerminalCodes == {TerminalCode(U32(5), 3), TerminalCode(U32_MAX, 32)}

get_compressed_value(t, uncompressed_byte) == t.values[uncompressed_byte]

get_compressed_value_bit_count(t, uncompressed_byte) ==
    t.bit_counts[uncompressed_byte]

-----------------------------------------------------------------------------
(* lib.rs: the inline Compressor.  Every operator returns the compressor   *)
(* after the call and whether the call panicked.                           *)

NewCompressor == [compressed_bits |-> Zero32, compressed_bit_count |-> 0]

buffer_write(c, value, bit_count, checks) ==
    IF checks /\ bit_count >= Width
    THEN [compressor |-> c, panic |-> TRUE]      \* shift left with overflow
    ELSE LET shifted == Shl(c.compressed_bits, bit_count % Width)
             bits == BitOr(shifted, value)
             sum == c.compressed_bit_count + bit_count
         IN  IF checks /\ sum >= U8Modulus
             THEN [compressor |-> [c EXCEPT !.compressed_bits = bits],
                   panic |-> TRUE]               \* add with overflow
             ELSE [compressor |-> [compressed_bits |-> bits,
                                   compressed_bit_count |-> sum % U8Modulus],
                   panic |-> FALSE]

buffer_read_byte(c, checks) ==
    LET count == c.compressed_bit_count - 8
    IN  IF checks /\ count >= Width
        THEN [compressor |-> [c EXCEPT !.compressed_bit_count = count],
              byte |-> 0, panic |-> TRUE]        \* shift right with overflow
        ELSE LET byte == Shr(c.compressed_bits, count % Width)
                 mask == IF count > 0
                         THEN Shr(U32_MAX, ((Width - count) % U8Modulus) % Width)
                         ELSE Zero32
             IN  [compressor |-> [compressed_bits |->
                                      BitAnd(c.compressed_bits, mask),
                                  compressed_bit_count |-> count],
                  byte |-> AsU8(byte), panic |-> FALSE]

\* variant of get_compressed_byte: a byte is handed out only when two are queued
get_compressed_byte_needs_two(c, checks) ==
    IF c.compressed_bit_count < 16
    THEN [compressor |-> c, ret |-> None, panic |-> FALSE]
    ELSE LET r == buffer_read_byte(c, checks)
         IN  [compressor |-> r.compressor,
              ret |-> IF r.panic THEN None ELSE Some(r.byte),
              panic |-> r.panic]

get_compressed_byte(c, checks) ==
    IF c.compressed_bit_count < 8
    THEN [compressor |-> c, ret |-> None, panic |-> FALSE]
    ELSE LET r == buffer_read_byte(c, checks)
         IN  [compressor |-> r.compressor,
              ret |-> IF r.panic THEN None ELSE Some(r.byte),
              panic |-> r.panic]

compress_byte(c, t, byte, checks) ==
    buffer_write(c, t.values[byte], t.bit_counts[byte], checks)

append_terminal_code(c, tc, checks) ==
    buffer_write(c, tc.value, tc.bit_count, checks)

\* variant of end: pads also when the count is already on a byte boundary
end_always_pads(c, checks) ==
    buffer_write(c, Zero32, 8 - (c.compressed_bit_count % 8), checks)

end(c, checks) ==
    LET byte_boundary_offset == c.compressed_bit_count % 8
    IN  IF byte_boundary_offset # 0
        THEN buffer_write(c, Zero32, 8 - byte_boundary_offset, checks)
        ELSE [compressor |-> c, panic |-> FALSE]

-----------------------------------------------------------------------------
(* compressor/buffer.rs: CompressorBuffer.  Every operator returns the     *)
(* buffer after the call and whether the call panicked.                    *)

\* CompressorBuffer::new
NewBuffer == [compressed_bits |-> Zero32, compressed_bit_count |-> 0]

\* variant of write_bits: bits at or above bit_count are masked off the value
write_bits_masks_value(b, value, bit_count, checks) ==
    IF checks /\ bit_count >= Width
    THEN [buffer |-> b, panic |-> TRUE]
    ELSE LET shifted == Shl(b.compressed_bits, bit_count % Width)
             bits == BitOr(shifted, [i \in BitPos |->
                                        IF i < bit_count THEN value[i] ELSE 0])
             sum == b.compressed_bit_count + bit_count
         IN  IF checks /\ sum >= U8Modulus
             THEN [buffer |-> [b EXCEPT !.compressed_bits = bits],
                   panic |-> TRUE]
             ELSE [buffer |-> [compressed_bits |-> bits,
                               compressed_bit_count |-> sum % U8Modulus],
                   panic |-> FALSE]

\* variant of write_bits: the value is OR-ed in before the shift
write_bits_or_then_shift(b, value, bit_count, checks) ==
    IF checks /\ bit_count >= Width
    THEN [buffer |-> b, panic |-> TRUE]
    ELSE [buffer |-> [compressed_bits |->
                          Shl(BitOr(b.compressed_bits, value),
                              bit_count % Width),
                      compressed_bit_count |->
                          (b.compressed_bit_count + bit_count) % U8Modulus],
          panic |-> FALSE]

write_bits(b, value, bit_count, checks) ==
    IF checks /\ bit_count >= Width
    THEN [buffer |-> b, panic |-> TRUE]          \* shift left with overflow
    ELSE LET shifted == Shl(b.compressed_bits, bit_count % Width)
             bits == BitOr(shifted, value)
             sum == b.compressed_bit_count + bit_count
         IN  IF checks /\ sum >= U8Modulus
             THEN [buffer |-> [b EXCEPT !.compressed_bits = bits],
                   panic |-> TRUE]               \* add with overflow
             ELSE [buffer |-> [compressed_bits |-> bits,
                               compressed_bit_count |-> sum % U8Modulus],
                   panic |-> FALSE]

\* variant of read_byte: exactly 8 queued bits are not enough for a byte
read_byte_needs_nine_bits(b, checks) ==
    IF b.compressed_bit_count <= 8
    THEN [buffer |-> b, ret |-> None, panic |-> FALSE]
    ELSE LET count == b.compressed_bit_count - 8
         IN  IF checks /\ count >= Width
             THEN [buffer |-> [b EXCEPT !.compressed_bit_count = count],
                   ret |-> None, panic |-> TRUE]
             ELSE LET byte == Shr(b.compressed_bits, count % Width)
                      mask == Shr(U32_MAX,
                                  ((Width - count) % U8Modulus) % Width)
                  IN  [buffer |-> [compressed_bits |->
                                       BitAnd(b.compressed_bits, mask),
                                   compressed_bit_count |-> count],
                       ret |-> Some(AsU8(byte)), panic |-> FALSE]

\* variant of read_byte: the consumed bits are left in the register
read_byte_keeps_consumed_bits(b, checks) ==
    IF b.compressed_bit_count < 8
    THEN [buffer |-> b, ret |-> None, panic |-> FALSE]
    ELSE LET count == b.compressed_bit_count - 8
         IN  IF checks /\ count >= Width
             THEN [buffer |-> [b EXCEPT !.compressed_bit_count = count],
                   ret |-> None, panic |-> TRUE]
             ELSE LET byte == Shr(b.compressed_bits, count % Width)
                  IN  [buffer |-> [compressed_bits |-> b.compressed_bits,
                                   compressed_bit_count |-> count],
                       ret |-> Some(AsU8(byte)), panic |-> FALSE]

\* variant of read_byte: the extracted value keeps its low 9 bits
read_byte_keeps_nine_bits(b, checks) ==
    IF b.compressed_bit_count < 8
    THEN [buffer |-> b, ret |-> None, panic |-> FALSE]
    ELSE LET count == b.compressed_bit_count - 8
         IN  IF checks /\ count >= Width
             THEN [buffer |-> [b EXCEPT !.compressed_bit_count = count],
                   ret |-> None, panic |-> TRUE]
             ELSE LET byte == Shr(b.compressed_bits, count % Width)
                      mask == IF count > 0
                              THEN Shr(U32_MAX,
                                       ((Width - count) % U8Modulus) % Width)
                              ELSE Zero32
                  IN  [buffer |-> [compressed_bits |->
                                       BitAnd(b.compressed_bits, mask),
                                   compressed_bit_count |-> count],
                       ret |-> Some(AsU8(byte) + U8Modulus * byte[8]),
                       panic |-> FALSE]

\* variant of read_byte: the byte is taken from the low end of the register
read_byte_low_end(b, checks) ==
    IF b.compressed_bit_count < 8
    THEN [buffer |-> b, ret |-> None, panic |-> FALSE]
    ELSE [buffer |-> [compressed_bits |-> Shr(b.compressed_bits, 8),
                      compressed_bit_count |-> b.compressed_bit_count - 8],
          ret |-> Some(AsU8(b.compressed_bits)), panic |-> FALSE]

read_byte(b, checks) ==
    IF b.compressed_bit_count < 8
    THEN [buffer |-> b, ret |-> None, panic |-> FALSE]
    ELSE LET count == b.compressed_bit_count - 8
         IN  IF checks /\ count >= Width
             THEN [buffer |-> [b EXCEPT !.compressed_bit_count = count],
                   ret |-> None, panic |-> TRUE] \* shift right with overflow
             ELSE LET byte == Shr(b.compressed_bits, count % Width)
                      mask == IF count > 0
                              THEN Shr(U32_MAX,
                                       ((Width - count) % U8Modulus) % Width)
                              ELSE Zero32
                  IN  [buffer |-> [compressed_bits |->
                                       BitAnd(b.compressed_bits, mask),
                                   compressed_bit_count |-> count],
                       ret |-> Some(AsU8(byte)), panic |-> FALSE]

\* variant of byte_boundary_offset: the number of whole bytes queued
byte_boundary_offset_whole_bytes(b) == b.compressed_bit_count \div 8

byte_boundary_offset(b) == b.compressed_bit_count % 8

-----------------------------------------------------------------------------
(* compressor.rs: the streaming Compressor over a CompressorBuffer *)

\* variant of compress_byte: the bits of the code are written as zeros
s_compress_byte_zero_value(b, t, byte, checks) ==
    LET bit_count == get_compressed_value_bit_count(t, byte)
    IN  write_bits(b, Zero32, bit_count, checks)

s_compress_byte(b, t, byte, checks) ==
    LET value == get_compressed_value(t, byte)
        bit_count == get_compressed_value_bit_count(t, byte)
    IN  write_bits(b, value, bit_count, checks)

s_get_compressed_byte(b, checks) == read_byte(b, checks)

s_append_terminal_code(b, tc, checks) ==
    write_bits(b, tc.value, tc.bit_count, checks)

\* variant of end: the padding is `offset` bits long, not `8 - offset`
s_end_pads_offset(b, checks) ==
    LET offset == byte_boundary_offset(b)
    IN  IF offset # 0
        THEN write_bits(b, Zero32, offset, checks)
        ELSE [buffer |-> b, panic |-> FALSE]

s_end(b, checks) ==
    LET offset == byte_boundary_offset(b)
    IN  IF offset # 0
        THEN write_bits(b, Zero32, 8 - offset, checks)
        ELSE [buffer |-> b, panic |-> FALSE]

\* Iterator::next
next(b, checks) == s_get_compressed_byte(b, checks)


-----------------------------------------------------------------------------
(* lib.rs: Huffman::compress, one action per statement of its body *)

Inputs == UNION {[1..n -> Syms] : n \in 0..MaxSrcLen}

\* variant of push: the byte goes to the front of the vector
push_front(v, byte) == << byte >> \o v

\* Vec::push
push(v, byte) == Append(v, byte)

\* history of one buffer write made by compress
Logged(kind, value, bit_count, r) ==
    /\ write_log' = IF r.panic THEN write_log
                    ELSE Append(write_log, [kind |-> kind, value |-> value,
                                            bit_count |-> bit_count])
    /\ lost_bits' = (lost_bits \/ (~r.panic /\
                       compressor.compressed_bit_count + bit_count > Width))

\* variant of Call: the compressor of the previous call is used again
CallReusingCompressor ==
    /\ pc \in {"idle", "panicked"}
    /\ calls < MaxCalls
    /\ \E input \in Inputs :
          /\ src' = input
          /\ call_src' = input
    /\ pc' = "for"
    /\ calls' = calls + 1
    /\ output_before' = output
    /\ compressor_before' = compressor
    /\ write_log' = << >>
    /\ lost_bits' = FALSE
    /\ read_after_loss' = FALSE
    /\ UNCHANGED << compressor, output, config_vars, par_vars, stream_vars >>

\* lines 95-100: a call starts with a freshly constructed Compressor.  A
\* panic unwinds out of compress and leaves the Huffman value and the
\* caller's output usable, so a later call may follow an aborted one.
Call ==
    /\ pc \in {"idle", "panicked"}
    /\ calls < MaxCalls
    /\ \E input \in Inputs :
          /\ src' = input
          /\ call_src' = input
    /\ compressor' = NewCompressor
    /\ pc' = "for"
    /\ calls' = calls + 1
    /\ output_before' = output
    /\ compressor_before' = compressor
    /\ write_log' = << >>
    /\ lost_bits' = FALSE
    /\ read_after_loss' = FALSE
    /\ UNCHANGED << output, config_vars, par_vars, stream_vars >>

\* lines 102-103: the for loop takes the next byte and compresses it
ForByte ==
    /\ pc = "for"
    /\ IF src = << >>
       THEN /\ pc' = "terminal"
            /\ UNCHANGED << src, compressor, write_log, lost_bits >>
       ELSE LET r == compress_byte(compressor, table, Head(src),
                                   overflow_checks)
            IN  /\ compressor' = r.compressor
                /\ src' = Tail(src)
                /\ pc' = IF r.panic THEN "panicked" ELSE "drain"
                /\ Logged("code", table.values[Head(src)],
                          table.bit_counts[Head(src)], r)
    /\ UNCHANGED << output, calls, call_src, output_before, compressor_before,
                    read_after_loss,
                    config_vars, par_vars, stream_vars >>

\* variant of DrainTurn: the loop takes at most one byte
DrainTurnOneByte(after) ==
    LET r == get_compressed_byte(compressor, overflow_checks)
    IN  /\ compressor' = r.compressor
        /\ IF r.panic
           THEN /\ pc' = "panicked"
                /\ UNCHANGED << output, read_after_loss >>
           ELSE IF ~r.ret.some
           THEN /\ pc' = after
                /\ UNCHANGED << output, read_after_loss >>
           ELSE /\ pc' = after
                /\ output' = push(output, r.ret.val)
                /\ read_after_loss' = (read_after_loss \/ lost_bits)
        /\ UNCHANGED << src, calls, call_src, output_before, compressor_before,
                        write_log, lost_bits, config_vars, par_vars,
                        stream_vars >>

\* variant of DrainTurn: the loop does not end when no byte is available
DrainTurnNeverLeaves(after) ==
    LET r == get_compressed_byte(compressor, overflow_checks)
    IN  /\ compressor' = r.compressor
        /\ IF r.panic
           THEN /\ pc' = "panicked"
                /\ UNCHANGED << output, read_after_loss >>
           ELSE IF ~r.ret.some
           THEN UNCHANGED << pc, output, read_after_loss >>
           ELSE /\ pc' = pc
                /\ output' = push(output, r.ret.val)
                /\ read_after_loss' = (read_after_loss \/ lost_bits)
        /\ UNCHANGED << src, calls, call_src, output_before, compressor_before,
                        write_log, lost_bits, config_vars, par_vars, stream_vars >>

\* one turn of a `while let Some(output_byte) = get_compressed_byte()` loop
DrainTurn(after) ==
    LET r == get_compressed_byte(compressor, overflow_checks)
    IN  /\ compressor' = r.compressor
        /\ IF r.panic
           THEN /\ pc' = "panicked"
                /\ UNCHANGED << output, read_after_loss >>
           ELSE IF ~r.ret.some
           THEN /\ pc' = after
                /\ UNCHANGED << output, read_after_loss >>
           ELSE /\ pc' = pc
                /\ output' = push(output, r.ret.val)
                /\ read_after_loss' = (read_after_loss \/ lost_bits)
        /\ UNCHANGED << src, calls, call_src, output_before, compressor_before,
                        write_log, lost_bits, config_vars, par_vars, stream_vars >>

\* lines 105-107
Drain ==
    /\ pc = "drain"
    /\ DrainTurn("for")

\* variant of Terminal: the configured marker is never written
TerminalSkipped ==
    /\ pc = "terminal"
    /\ pc' = "end"
    /\ UNCHANGED << compressor, write_log, lost_bits, src, output, calls,
                    call_src, output_before, compressor_before,
                    read_after_loss, config_vars, par_vars, stream_vars >>

\* lines 110-112
Terminal ==
    /\ pc = "terminal"
    /\ IF terminal_code.some
       THEN LET r == append_terminal_code(compressor, terminal_code.val,
                                          overflow_checks)
            IN  /\ compressor' = r.compressor
                /\ pc' = IF r.panic THEN "panicked" ELSE "end"
                /\ Logged("terminal", terminal_code.val.value,
                          terminal_code.val.bit_count, r)
       ELSE /\ pc' = "end"
            /\ UNCHANGED << compressor, write_log, lost_bits >>
    /\ UNCHANGED << src, output, calls, call_src, output_before,
                    compressor_before, read_after_loss, config_vars, par_vars,
                    stream_vars >>

\* line 114
End ==
    /\ pc = "end"
    /\ LET r == end(compressor, overflow_checks)
       IN  /\ compressor' = r.compressor
           /\ pc' = IF r.panic THEN "panicked" ELSE "final_drain"
           /\ IF r.compressor = compressor
              THEN UNCHANGED << write_log, lost_bits >>
              ELSE Logged("padding", Zero32,
                          r.compressor.compressed_bit_count
                            - compressor.compressed_bit_count, r)
    /\ UNCHANGED << src, output, calls, call_src, output_before,
                    compressor_before, read_after_loss, config_vars, par_vars,
                    stream_vars >>

\* lines 116-119: the last drain, then compress returns
FinalDrain ==
    /\ pc = "final_drain"
    /\ DrainTurn("idle")

\* the concurrent runs
RunIds == {1, 2}

\* Compressor::new: a run starts with its own empty buffer
NewRun == [buffer |-> NewBuffer, s_pc |-> "live", hist |-> << >>,
           out |-> << >>]

\* the state after Huffman::new and Compressor::new, for a table of the set T
InitWith(T) ==
    /\ runs = [i \in RunIds |-> NewRun]
    /\ overflow_checks \in BOOLEAN
    /\ table \in T
    /\ terminal_code \in {None} \cup {Some(tc) : tc \in TerminalCodes}
    /\ pc = "idle"
    /\ src = << >>
    /\ compressor = NewCompressor
    /\ output = << >>
    /\ calls = 0
    /\ call_src = << >>
    /\ output_before = << >>
    /\ compressor_before = NewCompressor
    /\ write_log = << >>
    /\ lost_bits = FALSE
    /\ read_after_loss = FALSE
    /\ buffer = NewBuffer
    /\ s_pc = "live"
    /\ ops = 0
    /\ last_op = [op |-> "new", value |-> Zero32, bit_count |-> 0,
                  ret |-> None, panic |-> FALSE]
    /\ prev_buffer = NewBuffer
    /\ bit_log = << >>
    /\ read_log = << >>
    /\ in_contract = TRUE

Init == InitWith(Tables)

Next == Call \/ ForByte \/ Drain \/ Terminal \/ End \/ FinalDrain

Spec == Init /\ [][Next]_vars

\* compress is straight-line sequential code: once called, each of its
\* statements is executed as soon as control reaches it.  Only the caller's
\* decision to call again is left open.
CallFair == calls < MaxFairCalls /\ Call

NextFair ==
    \/ CallFair
    \/ ForByte
    \/ Drain
    \/ Terminal
    \/ End
    \/ FinalDrain

\* compress on the tables around the safe code length
InitBoundary == InitWith(BoundaryTables)

SpecBoundary == InitBoundary /\ [][Next]_vars

SpecFair ==
    /\ Init
    /\ [][NextFair]_vars
    /\ WF_vars(ForByte)
    /\ WF_vars(Drain)
    /\ WF_vars(Terminal)
    /\ WF_vars(End)
    /\ WF_vars(FinalDrain)

-----------------------------------------------------------------------------
(* The streaming Compressor driven by an arbitrary caller: any sequence of *)
(* compress_byte, append_terminal_code, end and next.                      *)

\* the bits a well-formed write queues: the low bit_count bits, MSB first
CodeBits(value, bit_count) == [k \in 1..bit_count |-> value[bit_count - k]]

\* no set bit at or above bit_count
WellFormed(value, bit_count) ==
    \A i \in BitPos : i >= bit_count => value[i] = 0

\* history of one streaming operation that wrote (value, bit_count)
Wrote(op, value, bit_count, r) ==
    /\ buffer' = r.buffer
    /\ s_pc' = IF r.panic THEN "panicked" ELSE "live"
    /\ ops' = ops + 1
    /\ prev_buffer' = buffer
    /\ last_op' = [op |-> op, value |-> value, bit_count |-> bit_count,
                   ret |-> None, panic |-> r.panic]
    /\ bit_log' = IF r.panic \/ bit_count > Width THEN bit_log
                  ELSE bit_log \o CodeBits(value, bit_count)
    /\ in_contract' = (/\ in_contract
                       /\ WellFormed(value, bit_count)
                       /\ buffer.compressed_bit_count + bit_count <= Width)
    /\ UNCHANGED << read_log, config_vars, par_vars, facade_vars >>

Live == s_pc = "live" /\ ops < MaxOps

\* compressor.rs lines 20-24
CompressByte ==
    /\ Live
    /\ \E byte \in Syms :
          Wrote("compress_byte", table.values[byte], table.bit_counts[byte],
                s_compress_byte(buffer, table, byte, overflow_checks))

\* compressor.rs lines 30-33
AppendTerminalCode ==
    /\ Live
    /\ \E tc \in TerminalCodes :
          Wrote("append_terminal_code", tc.value, tc.bit_count,
                s_append_terminal_code(buffer, tc, overflow_checks))

\* compressor.rs lines 35-43
EndStream ==
    /\ Live
    /\ LET r == s_end(buffer, overflow_checks)
       IN  IF r.buffer = buffer /\ ~r.panic
           THEN /\ ops' = ops + 1
                /\ prev_buffer' = buffer
                /\ last_op' = [op |-> "end", value |-> Zero32, bit_count |-> 0,
                               ret |-> None, panic |-> FALSE]
                /\ UNCHANGED << buffer, s_pc, bit_log, read_log, in_contract,
                                config_vars, par_vars, facade_vars >>
           ELSE Wrote("end", Zero32,
                      r.buffer.compressed_bit_count
                        - buffer.compressed_bit_count, r)

\* compressor.rs lines 49-51
NextByte ==
    /\ Live
    /\ LET r == next(buffer, overflow_checks)
       IN  /\ buffer' = r.buffer
           /\ s_pc' = IF r.panic THEN "panicked" ELSE "live"
           /\ ops' = ops + 1
           /\ prev_buffer' = buffer
           /\ last_op' = [op |-> "next", value |-> Zero32, bit_count |-> 0,
                          ret |-> r.ret, panic |-> r.panic]
           /\ read_log' = IF r.ret.some THEN Append(read_log, r.ret.val)
                          ELSE read_log
           /\ UNCHANGED << bit_log, in_contract, config_vars, par_vars, facade_vars >>

\* buffer.rs lines 40-42: the query takes &self and returns the offset
ByteBoundaryOffset ==
    /\ s_pc = "live"
    /\ prev_buffer' = buffer
    /\ last_op' = [op |-> "byte_boundary_offset", value |-> Zero32,
                   bit_count |-> 0, ret |-> Some(byte_boundary_offset(buffer)),
                   panic |-> FALSE]
    /\ UNCHANGED << buffer, s_pc, ops, bit_log, read_log, in_contract,
                    config_vars, par_vars, facade_vars >>

InitBuf == Init /\ ~terminal_code.some

NextBuf ==
    \/ CompressByte
    \/ AppendTerminalCode
    \/ EndStream
    \/ NextByte
    \/ ByteBoundaryOffset

SpecBuf == InitBuf /\ [][NextBuf]_vars

-----------------------------------------------------------------------------
(* compressor.rs: several Compressors over one shared read-only table, *)
(* their operations interleaved in any order                           *)

NoTerminalCode == TerminalCode(Zero32, 0)

\* the operations a run can perform on its Compressor
ParOps ==
    {[op |-> "compress_byte", byte |-> b, tc |-> NoTerminalCode] : b \in Syms}
    \cup {[op |-> "append_terminal_code", byte |-> 0, tc |-> tc] :
              tc \in TerminalCodes}
    \cup {[op |-> "end", byte |-> 0, tc |-> NoTerminalCode],
          [op |-> "next", byte |-> 0, tc |-> NoTerminalCode]}

\* one operation of the Compressor on buffer b
ApplyOp(b, t, o, checks) ==
    CASE o.op = "compress_byte" ->
             LET r == s_compress_byte(b, t, o.byte, checks)
             IN  [buffer |-> r.buffer, ret |-> None, panic |-> r.panic]
      [] o.op = "append_terminal_code" ->
             LET r == s_append_terminal_code(b, o.tc, checks)
             IN  [buffer |-> r.buffer, ret |-> None, panic |-> r.panic]
      [] o.op = "end" ->
             LET r == s_end(b, checks)
             IN  [buffer |-> r.buffer, ret |-> None, panic |-> r.panic]
      [] o.op = "next" -> next(b, checks)

\* the run after operation o
RunAfter(run, t, o, checks) ==
    LET r == ApplyOp(run.buffer, t, o, checks)
    IN  [buffer |-> r.buffer,
         s_pc   |-> IF r.panic THEN "panicked" ELSE "live",
         hist   |-> Append(run.hist, o),
         out    |-> IF r.ret.some THEN Append(run.out, r.ret.val)
                    ELSE run.out]

\* variant of ParStep: the Compressors share one buffer
ParStepSharedBuffer(i, o) ==
    LET after == RunAfter(runs[i], table, o, overflow_checks)
    IN  /\ runs' = [j \in RunIds |->
                       IF j = i THEN after
                       ELSE [runs[j] EXCEPT !.buffer = after.buffer]]
        /\ UNCHANGED << config_vars, facade_vars, stream_vars >>

\* run i performs operation o on its own Compressor
ParStep(i, o) ==
    /\ runs' = [runs EXCEPT ![i] = RunAfter(runs[i], table, o, overflow_checks)]
    /\ UNCHANGED << config_vars, facade_vars, stream_vars >>

RECURSIVE SumOps(_)
SumOps(S) ==
    IF S = {} THEN 0
    ELSE LET i == CHOOSE j \in S : TRUE
         IN  Len(runs[i].hist) + SumOps(S \ {i})

ParLive(i) == runs[i].s_pc = "live" /\ SumOps(RunIds) < MaxParOps

ParCompressByte ==
    \E i \in RunIds : \E o \in ParOps :
        ParLive(i) /\ o.op = "compress_byte" /\ ParStep(i, o)

ParAppendTerminalCode ==
    \E i \in RunIds : \E o \in ParOps :
        ParLive(i) /\ o.op = "append_terminal_code" /\ ParStep(i, o)

ParEnd ==
    \E i \in RunIds : \E o \in ParOps :
        ParLive(i) /\ o.op = "end" /\ ParStep(i, o)

ParNext ==
    \E i \in RunIds : \E o \in ParOps :
        ParLive(i) /\ o.op = "next" /\ ParStep(i, o)

InitPar == Init /\ ~terminal_code.some

NextPar == ParCompressByte \/ ParAppendTerminalCode \/ ParEnd \/ ParNext

SpecPar == InitPar /\ [][NextPar]_vars

\* the same operations performed by a run that is alone
RECURSIVE Replay(_, _, _, _)
Replay(run, t, hist, checks) ==
    IF hist = << >> \/ run.s_pc = "panicked" THEN run
    ELSE Replay(RunAfter(run, t, Head(hist), checks), t, Tail(hist), checks)

\* C12: runs that share the table and own their accumulators do not
\* interfere: whatever the interleaving, each run's accumulator, output and
\* abort are those of the same operations performed alone, and a step of one
\* run changes neither another run nor the table.
C12_RunsDoNotInterfere ==
    /\ [](\A i \in RunIds :
              runs[i] = Replay(NewRun, table, runs[i].hist, overflow_checks))
    /\ [][\E i \in RunIds :
              /\ \A j \in RunIds \ {i} : runs'[j] = runs[j]
              /\ table' = table]_vars

\* C12 witness: run 1 encoded a byte and read a byte of it while run 2,
\* which encoded another byte, holds its own 8 queued bits
C12_TwoRunsInterleaved ==
    /\ table = TableBytes
    /\ Len(runs[1].hist) = 2 /\ Len(runs[2].hist) = 1
    /\ runs[1].out = << 255 >>
    /\ runs[1].buffer = [compressed_bits |-> Zero32, compressed_bit_count |-> 8]
    /\ runs[2].out = << >>
    /\ runs[2].buffer = [compressed_bits |-> U32(128),
                         compressed_bit_count |-> 8]

-----------------------------------------------------------------------------
(* Reference bitstream and shorthands used by the properties *)

\* the bytes the current (or last) compress call has appended so far
Appended == SubSeq(output, Len(output_before) + 1, Len(output))

\* the last call returned (compress ran to its end)
Returned == pc = "idle" /\ calls > 0

RECURSIVE CodeStream(_, _)
\* the codes of the bytes of s, each MSB first, in input order
CodeStream(t, s) ==
    IF s = << >> THEN << >>
    ELSE CodeBits(t.values[Head(s)], t.bit_counts[Head(s)])
           \o CodeStream(t, Tail(s))

MarkerBits(tc) ==
    IF tc.some THEN CodeBits(tc.val.value, tc.val.bit_count) ELSE << >>

\* zero bits up to the next byte boundary
Padded(bits) == bits \o [k \in 1..((8 - (Len(bits) % 8)) % 8) |-> 0]

ByteOfBits(bits, k) ==
    128 * bits[8 * k - 7] + 64 * bits[8 * k - 6] + 32 * bits[8 * k - 5]
    + 16 * bits[8 * k - 4] + 8 * bits[8 * k - 3] + 4 * bits[8 * k - 2]
    + 2 * bits[8 * k - 1] + bits[8 * k]

\* a bit string whose length is a multiple of 8, read as bytes
Packed(bits) == [k \in 1..(Len(bits) \div 8) |-> ByteOfBits(bits, k)]

\* codes in input order, then the marker, then zero padding
ReferenceBytes(t, tc, s) == Packed(Padded(CodeStream(t, s) \o MarkerBits(tc)))

TableInContract(t) ==
    \A b \in Syms : /\ t.bit_counts[b] \in 0..Width
                    /\ WellFormed(t.values[b], t.bit_counts[b])

MarkerInContract(tc) ==
    tc.some => /\ tc.val.bit_count \in 0..Width
               /\ WellFormed(tc.val.value, tc.val.bit_count)

-----------------------------------------------------------------------------
(* Properties of Huffman::compress, checked under Spec *)

\* C1: for a well-formed table and marker with bit lengths in 0..32 and a
\* non-empty input, whenever compress returns, the bytes it appended are
\* the codes of the input bytes in order (MSB first), then the marker bits,
\* then zero padding to the byte boundary.
C1_BitOrderPreserved ==
    (/\ Returned
     /\ call_src # << >>
     /\ TableInContract(table)
     /\ MarkerInContract(terminal_code))
    => Appended = ReferenceBytes(table, terminal_code, call_src)

\* C2: overflow is fatal: in every state that is not aborted the
\* accumulator records at most 32 bits, and no byte is read after a write
\* that pushed the bit count past 32.
C2_OverflowIsFatal ==
    pc # "panicked" => /\ compressor.compressed_bit_count <= Width
                       /\ ~read_after_loss

\* C4: a write of 32 bits aborts at the write itself: no 32-bit write ever
\* completes, and compress never returns for an input that holds a byte
\* whose code is 32 bits long.
C4_Write32Aborts ==
    /\ \A k \in 1..Len(write_log) : write_log[k].bit_count # Width
    /\ Returned =>
          \A k \in 1..Len(call_src) : table.bit_counts[call_src[k]] # Width

\* the number of writes the marker accounts for
MarkerWrites == IF terminal_code.some THEN 1 ELSE 0

\* C5: the writes of a compress run are one code write per input byte in
\* input order, then the marker write (once if a marker is configured,
\* never otherwise), then at most one padding write, which is the last
\* write; once the run is past the marker step the marker write has
\* happened, also when the data ended on a byte boundary.
C5_WriteOrder ==
    /\ \A k \in 1..Len(write_log) :
          LET w == write_log[k]
          IN  /\ w.kind = "code" =>
                    /\ k <= Len(call_src) - Len(src)
                    /\ w.value = table.values[call_src[k]]
                    /\ w.bit_count = table.bit_counts[call_src[k]]
              /\ w.kind = "terminal" =>
                    /\ terminal_code.some
                    /\ src = << >>
                    /\ k = Len(call_src) + 1
                    /\ w.value = terminal_code.val.value
                    /\ w.bit_count = terminal_code.val.bit_count
              /\ w.kind = "padding" =>
                    /\ k = Len(call_src) + MarkerWrites + 1
                    /\ k = Len(write_log)
    /\ pc \in {"for", "drain", "terminal"} =>
          Len(write_log) = Len(call_src) - Len(src)
    /\ (pc \in {"end", "final_drain"} \/ Returned) =>
          /\ Len(write_log) >= Len(call_src) + MarkerWrites
          /\ \A k \in 1..Len(call_src) : write_log[k].kind = "code"
          /\ terminal_code.some =>
                write_log[Len(call_src) + 1].kind = "terminal"

\* C5 witness: lib.rs lines 290-314, an 8-bit code followed by the 3-bit
\* marker, which starts a second output byte
C5_MarkerStartsNewByte ==
    /\ Returned
    /\ call_src = << 203 >>
    /\ table = TableBytes
    /\ terminal_code = Some(TerminalCode(U32(5), 3))
    /\ Appended = << 128, 160 >>
    /\ Len(write_log) = 3

RECURSIVE RunLoop(_, _, _, _, _)
\* the for loop of compress on a compressor c with the bytes appended so far
RunLoop(c, t, s, checks, out) ==
    LET g == get_compressed_byte(c, checks)
    IN  IF g.panic THEN [compressor |-> g.compressor, out |-> out,
                         panic |-> TRUE]
        ELSE IF g.ret.some
        THEN RunLoop(g.compressor, t, s, checks, push(out, g.ret.val))
        ELSE IF s = << >>
        THEN [compressor |-> c, out |-> out, panic |-> FALSE]
        ELSE LET w == compress_byte(c, t, Head(s), checks)
             IN  IF w.panic THEN [compressor |-> w.compressor, out |-> out,
                                  panic |-> TRUE]
                 ELSE RunLoop(w.compressor, t, Tail(s), checks, out)

\* compress as a function of (table, terminal code, input, build profile),
\* run on a Compressor of its own: the bytes appended and whether it panics
RunAlone(t, tc, s, checks) ==
    LET a == RunLoop(NewCompressor, t, s, checks, << >>)
    IN  IF a.panic THEN a
        ELSE LET m == IF tc.some
                      THEN append_terminal_code(a.compressor, tc.val, checks)
                      ELSE [compressor |-> a.compressor, panic |-> FALSE]
             IN  IF m.panic THEN [compressor |-> m.compressor, out |-> a.out,
                                  panic |-> TRUE]
                 ELSE LET e == end(m.compressor, checks)
                      IN  IF e.panic
                          THEN [compressor |-> e.compressor, out |-> a.out,
                                panic |-> TRUE]
                          ELSE RunLoop(e.compressor, t, << >>, checks, a.out)

\* C7: calls on one Huffman instance are independent: when a call ends
\* (returns or aborts), the bytes it appended and its outcome are those of a
\* run on a freshly constructed instance for that call's input alone.
C7_CallsIndependent ==
    (calls > 0 /\ pc \in {"idle", "panicked"}) =>
        LET alone == RunAlone(table, terminal_code, call_src, overflow_checks)
        IN  /\ Appended = alone.out
            /\ (pc = "panicked") = alone.panic

\* C7 witness: a second call that follows an aborted call which left bits
\* in its compressor, and that returns the bytes of its own input
C7_SecondCallAfterAbort ==
    /\ calls = 2
    /\ Returned
    /\ compressor_before.compressed_bit_count = 3
    /\ call_src = << 203, 203 >>
    /\ Appended = << 180 >>

\* C8: compress of the empty input without a marker writes nothing, appends
\* nothing and does not abort.
C8_EmptyInputNoMarker ==
    (calls > 0 /\ call_src = << >> /\ ~terminal_code.some) =>
        /\ pc # "panicked"
        /\ write_log = << >>
        /\ output = output_before
        /\ compressor = NewCompressor

\* C8 witness: an empty call returned after an earlier call had appended
C8_EmptyCallReturned ==
    /\ Returned
    /\ calls = 2
    /\ call_src = << >>
    /\ ~terminal_code.some
    /\ output # << >>

IsPrefix(s, t) == Len(s) <= Len(t) /\ SubSeq(t, 1, Len(s)) = s

\* C10: compress only appends: every step keeps the bytes already in the
\* output at their positions, and never changes the table or the marker,
\* whether the call completes or aborts.
C10_OnlyAppends ==
    [][/\ IsPrefix(output, output')
       /\ table' = table
       /\ terminal_code' = terminal_code]_vars

\* C10 witness: a second call that appended a byte behind the bytes of the
\* first call and then aborted
C10_AppendedThenAborted ==
    /\ calls = 2
    /\ pc = "panicked"
    /\ output_before # << >>
    /\ Len(output) > Len(output_before)

-----------------------------------------------------------------------------
(* Properties of the streaming Compressor, checked under SpecBuf *)

\* the last operation called write_bits
LastWrote ==
    \/ last_op.op \in {"compress_byte", "append_terminal_code"}
    \/ last_op.op = "end" /\ (last_op.bit_count > 0 \/ last_op.panic)

\* the register after a write of (value, n) onto prev: the old register
\* shifted left by n with the value OR-ed in, every bit that was queued
\* still there above the new bits, and the count raised by n
WriteEffect(prev, value, n) ==
    /\ ~last_op.panic
    /\ buffer.compressed_bits
         = [i \in BitPos |-> IF i >= n
                             THEN IF prev.compressed_bits[i - n] = 1
                                     \/ value[i] = 1 THEN 1 ELSE 0
                             ELSE value[i]]
    /\ \A i \in 0..(prev.compressed_bit_count - 1) :
          buffer.compressed_bits[i + n] = prev.compressed_bits[i]
    /\ buffer.compressed_bit_count = prev.compressed_bit_count + n

\* C3: a well-formed write of 0..32 bits with
\* fill_count + bit_length <= 32 does not abort, leaves the register equal
\* to (old register << bit_length) | value with no queued bit lost, and
\* raises the count by bit_length.
C3_WriteWithinCapacity ==
    (/\ LastWrote
     /\ last_op.bit_count \in 0..Width
     /\ prev_buffer.compressed_bit_count + last_op.bit_count <= Width
     /\ WellFormed(last_op.value, last_op.bit_count))
    => WriteEffect(prev_buffer, last_op.value, last_op.bit_count)

\* C3 amended: a well-formed write of 0..31 bits with
\* fill_count + bit_length <= 32 does not abort, leaves the register equal
\* to (old register << bit_length) | value with no queued bit lost, and
\* raises the count by bit_length.
C3_WriteBelow32WithinCapacity ==
    (/\ LastWrote
     /\ last_op.bit_count \in 0..(Width - 1)
     /\ prev_buffer.compressed_bit_count + last_op.bit_count <= Width
     /\ WellFormed(last_op.value, last_op.bit_count))
    => WriteEffect(prev_buffer, last_op.value, last_op.bit_count)

\* C3 witness: a 16-bit code written behind 16 queued bits fills the
\* register exactly
C3_WriteFillsRegister ==
    /\ last_op.op = "compress_byte"
    /\ ~last_op.panic
    /\ last_op.bit_count = 16
    /\ prev_buffer.compressed_bit_count = 16
    /\ prev_buffer.compressed_bits # Zero32
    /\ buffer.compressed_bit_count = Width

\* C6: end, called with at most 32 bits queued, writes 8 - (count mod 8)
\* zero bits when count mod 8 is not zero and nothing otherwise; afterwards
\* the count is a multiple of 8, the bits queued before are unchanged and
\* precede the padding, and the padding is 0..7 bits long.
C6_EndPadsToByteBoundary ==
    (last_op.op = "end" /\ prev_buffer.compressed_bit_count <= Width) =>
        LET offset == prev_buffer.compressed_bit_count % 8
            pad == IF offset = 0 THEN 0 ELSE 8 - offset
        IN  /\ ~last_op.panic
            /\ pad \in 0..7
            /\ last_op.bit_count = pad
            /\ buffer.compressed_bit_count
                 = prev_buffer.compressed_bit_count + pad
            /\ buffer.compressed_bit_count % 8 = 0
            /\ \A i \in 0..(prev_buffer.compressed_bit_count - 1) :
                  buffer.compressed_bits[i + pad]
                    = prev_buffer.compressed_bits[i]
            /\ \A i \in 0..(pad - 1) : buffer.compressed_bits[i] = 0
            /\ pad = 0 => buffer = prev_buffer

\* C6 witness: end pads 26 queued bits with 6 zero bits
C6_EndPadded26Bits ==
    /\ last_op.op = "end"
    /\ prev_buffer.compressed_bit_count = 26
    /\ prev_buffer.compressed_bits = U32(33554433)
    /\ buffer.compressed_bit_count = Width

\* C9: as long as every write was well-formed and kept the count within
\* 32, the k-th byte returned by read_byte is bits 8(k-1)+1 .. 8k of the
\* concatenation of everything written, however writes and reads interleave.
C9_FifoBitQueue ==
    in_contract =>
        /\ 8 * Len(read_log) <= Len(bit_log)
        /\ \A k \in 1..Len(read_log) : read_log[k] = ByteOfBits(bit_log, k)
        /\ Len(bit_log) = 8 * Len(read_log) + buffer.compressed_bit_count

\* C9 witness: a read between two writes and a read after them, returning
\* the two bytes of the first code while the second code stays queued
C9_ReadsBetweenWrites ==
    /\ in_contract
    /\ last_op.op = "next"
    /\ read_log = << 255, 0 >>
    /\ buffer.compressed_bit_count = 8
    /\ buffer.compressed_bits = U32(128)

-----------------------------------------------------------------------------
(* Termination of Huffman::compress, checked under SpecFair *)

Running == pc \in {"for", "drain", "terminal", "end", "final_drain"}

Ended == pc \in {"idle", "panicked"}

\* C11: every compress run terminates: a call in progress eventually
\* returns or aborts; every turn of a drain loop that yields a byte lowers
\* the bit count by 8, and a turn taken with fewer than 8 bits ends the loop.
C11_CompressTerminates ==
    /\ Running ~> Ended
    /\ [][(pc \in {"drain", "final_drain"} /\ pc' # "panicked") =>
            IF compressor.compressed_bit_count < 8
            THEN pc' # pc /\ output' = output /\ compressor' = compressor
            ELSE /\ pc' = pc
                 /\ Len(output') = Len(output) + 1
                 /\ compressor'.compressed_bit_count
                      = compressor.compressed_bit_count - 8]_vars

\* C11 witness: a call whose drain loop took two reads before it ended
C11_DrainedTwoBytesAndReturned ==
    /\ Returned
    /\ table = TableBytes
    /\ call_src = << 160 >>
    /\ ~terminal_code.some
    /\ Appended = << 255, 0 >>

-----------------------------------------------------------------------------
(* Malformed codes in the streaming Compressor, checked under SpecBuf *)

\* the declared code of (value, n): its low n bits
DeclaredCode(value, n) == [i \in BitPos |-> IF i < n THEN value[i] ELSE 0]

\* the queued bits of b, oldest first (for a count within the register)
QueuedBits(b) ==
    [k \in 1..b.compressed_bit_count |->
        b.compressed_bits[b.compressed_bit_count - k]]

\* the last n declared bits written
DeclaredTail(n) == SubSeq(bit_log, Len(bit_log) - n + 1, Len(bit_log))

\* C13: a malformed code is never detected: a write whose value has a set
\* bit at or above its bit length aborts exactly when the write of its
\* declared code would and changes the count as that write would; all set
\* bits of the value are OR-ed into the register, so a stray bit that lands
\* on an older queued 0 bit turns it into 1 and the queued bits are no
\* longer the declared codes.
C13_MalformedCodeAccepted ==
    (/\ last_op.op \in {"compress_byte", "append_terminal_code"}
     /\ ~WellFormed(last_op.value, last_op.bit_count)) =>
        LET n == last_op.bit_count
            declared == write_bits(prev_buffer,
                                   DeclaredCode(last_op.value, n), n,
                                   overflow_checks)
        IN  /\ last_op.panic = declared.panic
            /\ buffer.compressed_bit_count
                 = declared.buffer.compressed_bit_count
            /\ ~last_op.panic =>
                  buffer.compressed_bits
                    = BitOr(declared.buffer.compressed_bits, last_op.value)
            /\ (/\ ~last_op.panic
                /\ buffer.compressed_bit_count <= Width
                /\ \E i \in n..(buffer.compressed_bit_count - 1) :
                      /\ last_op.value[i] = 1
                      /\ prev_buffer.compressed_bits[i - n] = 0)
               => QueuedBits(buffer)
                    # DeclaredTail(buffer.compressed_bit_count)

\* C13 witness: the code 10 was declared twice, each time with a stray third
\* bit; after padding, the byte read is 0b11100000, not 0b10100000
C13_StrayBitInEmittedByte ==
    /\ table = TableMalformed
    /\ last_op.op = "next"
    /\ ~last_op.panic
    /\ bit_log = << 1, 0, 1, 0, 0, 0, 0, 0 >>
    /\ read_log = << 224 >>
    /\ read_log # Packed(bit_log)

-----------------------------------------------------------------------------
(* read_byte with fewer than 8 bits queued, checked under SpecBuf *)

\* C14: next returns nothing exactly when fewer than 8 bits are queued, a
\* fresh Compressor included, and then leaves the register and the count
\* unchanged; hence, while every write is well-formed and in capacity, the
\* last (bits written mod 8) bits written are still queued, whatever the
\* number of next calls, until end has padded them to a whole byte.
C14_NoByteBelowEightBits ==
    /\ (last_op.op = "next" /\ ~last_op.panic) =>
          /\ ~last_op.ret.some <=> prev_buffer.compressed_bit_count < 8
          /\ ~last_op.ret.some => buffer = prev_buffer
    /\ in_contract =>
          LET rest == Len(bit_log) % 8
          IN  /\ buffer.compressed_bit_count >= rest
              /\ \A k \in 1..rest :
                    buffer.compressed_bits[k - 1]
                      = bit_log[Len(bit_log) - k + 1]
              /\ 8 * Len(read_log) = Len(bit_log) - buffer.compressed_bit_count

\* C14 witness: 10 bits written; the first next returned a byte, the second
\* returned nothing and left the last 2 bits queued
C14_ByteThenNothing ==
    /\ table = TableShort
    /\ in_contract
    /\ last_op.op = "next"
    /\ ~last_op.ret.some
    /\ Len(bit_log) = 10
    /\ read_log = << 255 >>
    /\ buffer = [compressed_bits |-> U32(3), compressed_bit_count |-> 2]

-----------------------------------------------------------------------------
(* Draining in Huffman::compress, checked under Spec *)

\* bits of the codes of the call's input and of the configured marker
CallBitCount == Len(CodeStream(table, call_src) \o MarkerBits(terminal_code))

\* C15: draining is complete: fewer than 8 bits are queued before each
\* compress_byte, before append_terminal_code and before end; when compress
\* returns the count is 0 and the register is zero, and the call appended
\* ceil((code bits + marker bits) / 8) bytes.
C15_DrainingComplete ==
    /\ pc \in {"for", "terminal", "end"} =>
          compressor.compressed_bit_count < 8
    /\ Returned =>
          /\ compressor = NewCompressor
          /\ Len(Appended) = (CallBitCount + 7) \div 8

\* C15 amended: fewer than 8 bits are queued before each compress_byte and
\* before append_terminal_code; before end fewer than 8 plus the bit length
\* of the configured marker, which is written without a drain after it; when
\* compress returns the count is 0, the register is zero unless a code or
\* marker of bit length 0 with a non-zero value was written, and the call
\* appended ceil((code bits + marker bits) / 8) bytes.
C15_DrainingCompleteBeforeCodes ==
    /\ pc \in {"for", "terminal"} => compressor.compressed_bit_count < 8
    /\ pc = "end" =>
          compressor.compressed_bit_count
            < 8 + (IF terminal_code.some THEN terminal_code.val.bit_count
                   ELSE 0)
    /\ Returned =>
          /\ compressor.compressed_bit_count = 0
          /\ (\A k \in 1..Len(write_log) :
                 write_log[k].bit_count = 0 => write_log[k].value = Zero32)
             => compressor = NewCompressor
          /\ Len(Appended) = (CallBitCount + 7) \div 8

\* C15 witness: a 5-bit code and the 3-bit marker; end was called with 8 bits
\* queued, and the call returned with one byte appended and nothing queued
C15_MarkerFillsByteBeforeEnd ==
    /\ Returned
    /\ table = TableShort
    /\ call_src = << 203 >>
    /\ terminal_code = Some(TerminalCode(U32(5), 3))
    /\ Len(write_log) = 2
    /\ Appended = << 253 >>
    /\ compressor = NewCompressor

-----------------------------------------------------------------------------
(* Register cleanliness in the streaming Compressor, checked under SpecBuf *)

\* C16: after well-formed, in-capacity writes and any reads, every register
\* bit at a position >= the count is zero; a successful read lowers the count
\* by 8, clears the 8 bits it consumed and keeps the bits below them, and
\* when the count drops to 0 the register becomes 0 without a panic.
C16_RegisterClean ==
    in_contract =>
        /\ \A i \in BitPos :
              i >= buffer.compressed_bit_count =>
                  buffer.compressed_bits[i] = 0
        /\ (last_op.op = "next" /\ prev_buffer.compressed_bit_count >= 8) =>
              /\ ~last_op.panic
              /\ last_op.ret.some
              /\ buffer.compressed_bit_count
                   = prev_buffer.compressed_bit_count - 8
              /\ \A i \in BitPos :
                    buffer.compressed_bits[i]
                      = IF i < buffer.compressed_bit_count
                        THEN prev_buffer.compressed_bits[i]
                        ELSE 0
              /\ buffer.compressed_bit_count = 0 =>
                    buffer.compressed_bits = Zero32

\* C16 witness: with overflow checks on, a read of the only 8 queued bits
\* (0x80) leaves the count 0 and the register 0
C16_ReadEmptiesRegister ==
    /\ overflow_checks
    /\ in_contract
    /\ last_op.op = "next"
    /\ last_op.ret = Some(128)
    /\ prev_buffer = [compressed_bits |-> U32(128), compressed_bit_count |-> 8]
    /\ buffer = NewBuffer

-----------------------------------------------------------------------------
(* Code lengths that can never overflow, checked under SpecBoundary *)

\* the longest code that fits behind the 7 bits a drain can leave queued
SafeBitCount == Width - 7

\* the codes of the call's input and the marker are well-formed and at most
\* SafeBitCount bits long
SafeLengths ==
    /\ \A k \in 1..Len(call_src) :
          /\ table.bit_counts[call_src[k]] <= SafeBitCount
          /\ WellFormed(table.values[call_src[k]],
                        table.bit_counts[call_src[k]])
    /\ terminal_code.some =>
          /\ terminal_code.val.bit_count <= SafeBitCount
          /\ WellFormed(terminal_code.val.value, terminal_code.val.bit_count)

\* the write of a code or of the marker comes next
CodeWriteNext ==
    \/ pc = "for" /\ src # << >>
    \/ pc = "terminal" /\ terminal_code.some

\* the padding write of end comes next
PaddingWriteNext ==
    pc = "end" /\ compressor.compressed_bit_count % 8 # 0

\* the call has not aborted, no queued bit was shifted out of the register,
\* and a call that returned appended the reference bitstream
SafeRun ==
    /\ pc # "panicked"
    /\ compressor.compressed_bit_count <= Width
    /\ ~lost_bits
    /\ Returned => Appended = ReferenceBytes(table, terminal_code, call_src)

\* C17: with well-formed codes and marker of at most 25 bits compress never
\* aborts, the count never exceeds 32 and is at most 7 before each write, no
\* queued bit is shifted out, and the output is the reference bitstream.
C17_SafeCodeLengths ==
    (calls > 0 /\ SafeLengths) =>
        /\ SafeRun
        /\ (CodeWriteNext \/ PaddingWriteNext) =>
              compressor.compressed_bit_count <= 7

\* C17 amended: with well-formed codes and marker of at most 25 bits compress
\* never aborts, the count never exceeds 32, is at most 7 before each write
\* of a code or of the marker and at most 7 plus the marker's bit length
\* before the padding write, no queued bit is shifted out, and the output is
\* the reference bitstream.
C17_SafeCodeLengthsCodeWrites ==
    (calls > 0 /\ SafeLengths) =>
        /\ SafeRun
        /\ CodeWriteNext => compressor.compressed_bit_count <= 7
        /\ PaddingWriteNext =>
              compressor.compressed_bit_count
                <= 7 + (IF terminal_code.some
                        THEN terminal_code.val.bit_count ELSE 0)

\* C17 witness: a 25-bit code written behind 7 queued bits filled the register
\* exactly, and the call returned the reference bitstream
C17_Code25Behind7Bits ==
    /\ Returned
    /\ table = TableSafe
    /\ call_src = << 160, 203 >>
    /\ ~terminal_code.some
    /\ ~lost_bits
    /\ Appended = << 129, 0, 0, 1 >>

-----------------------------------------------------------------------------
(* The streaming Compressor against the inline Compressor of lib.rs, *)
(* checked under SpecBuf                                              *)

RECURSIVE StreamLoop(_, _, _, _, _)
\* the facade's feed-and-drain loop driven on a streaming Compressor
StreamLoop(b, t, s, checks, out) ==
    LET g == next(b, checks)
    IN  IF g.panic THEN [buffer |-> g.buffer, out |-> out, panic |-> TRUE]
        ELSE IF g.ret.some
        THEN StreamLoop(g.buffer, t, s, checks, push(out, g.ret.val))
        ELSE IF s = << >>
        THEN [buffer |-> b, out |-> out, panic |-> FALSE]
        ELSE LET w == s_compress_byte(b, t, Head(s), checks)
             IN  IF w.panic THEN [buffer |-> w.buffer, out |-> out,
                                  panic |-> TRUE]
                 ELSE StreamLoop(w.buffer, t, Tail(s), checks, out)

\* the facade protocol (feed and drain, marker, end, drain) driven on a
\* streaming Compressor
StreamAlone(t, tc, s, checks) ==
    LET a == StreamLoop(NewBuffer, t, s, checks, << >>)
    IN  IF a.panic THEN a
        ELSE LET m == IF tc.some
                      THEN s_append_terminal_code(a.buffer, tc.val, checks)
                      ELSE [buffer |-> a.buffer, panic |-> FALSE]
             IN  IF m.panic THEN [buffer |-> m.buffer, out |-> a.out,
                                  panic |-> TRUE]
                 ELSE LET e == s_end(m.buffer, checks)
                      IN  IF e.panic
                          THEN [buffer |-> e.buffer, out |-> a.out,
                                panic |-> TRUE]
                          ELSE StreamLoop(e.buffer, t, << >>, checks, a.out)

\* the inline Compressor of lib.rs performs the last streaming operation on
\* the same register and count
InlineStep ==
    CASE last_op.op = "compress_byte" ->
             \E byte \in Syms :
                 /\ table.values[byte] = last_op.value
                 /\ table.bit_counts[byte] = last_op.bit_count
                 /\ compress_byte(prev_buffer, table, byte, overflow_checks)
                      = [compressor |-> buffer, panic |-> last_op.panic]
      [] last_op.op = "append_terminal_code" ->
             \E tc \in TerminalCodes :
                 /\ tc.value = last_op.value
                 /\ tc.bit_count = last_op.bit_count
                 /\ append_terminal_code(prev_buffer, tc, overflow_checks)
                      = [compressor |-> buffer, panic |-> last_op.panic]
      [] last_op.op = "end" ->
             end(prev_buffer, overflow_checks)
               = [compressor |-> buffer, panic |-> last_op.panic]
      [] last_op.op = "next" ->
             get_compressed_byte(prev_buffer, overflow_checks)
               = [compressor |-> buffer, ret |-> last_op.ret,
                  panic |-> last_op.panic]
      [] last_op.op = "byte_boundary_offset" -> buffer = prev_buffer
      [] OTHER -> buffer = NewCompressor

\* C18: the streaming Compressor and the inline Compressor of lib.rs agree:
\* each operation takes both from the same register and count to the same
\* register and count, returns the same byte and aborts in both or in
\* neither; and the facade protocol driven on the streaming Compressor
\* yields the bytes and the outcome of Huffman::compress.
C18_ImplementationsAgree ==
    /\ InlineStep
    /\ ops = 0 =>
          \A s \in Inputs :
              \A tc \in {None} \cup {Some(c) : c \in TerminalCodes} :
                  LET stream == StreamAlone(table, tc, s, overflow_checks)
                      inline == RunAlone(table, tc, s, overflow_checks)
                  IN  /\ stream.out = inline.out
                      /\ stream.panic = inline.panic
                      /\ stream.buffer = inline.compressor

\* C18 witness: both implementations abort at the same read: with overflow
\* checks on, 48 bits were recorded and the read shifts the register by 40
C18_BothAbortAtRead ==
    /\ overflow_checks
    /\ last_op.op = "next"
    /\ last_op.panic
    /\ s_pc = "panicked"
    /\ prev_buffer.compressed_bit_count = 48
    /\ get_compressed_byte(prev_buffer, overflow_checks).panic

-----------------------------------------------------------------------------
(* byte_boundary_offset, checked under SpecBuf *)

\* C19: byte_boundary_offset is a pure query: it returns the count mod 8, a
\* value in 0..7 that equals the number of bits written so far mod 8 however
\* many bytes were read, and leaves the register and the count unchanged.
C19_BoundaryOffsetIsPure ==
    last_op.op = "byte_boundary_offset" =>
        /\ ~last_op.panic
        /\ last_op.ret = Some(prev_buffer.compressed_bit_count % 8)
        /\ last_op.ret.val \in 0..7
        /\ last_op.ret.val = Len(bit_log) % 8
        /\ buffer = prev_buffer

\* C19 witness: 10 bits written and a byte read: 2 bits are queued and the
\* offset is 2
C19_OffsetAfterRead ==
    /\ last_op.op = "byte_boundary_offset"
    /\ last_op.ret = Some(2)
    /\ Len(bit_log) = 10
    /\ read_log = << 255 >>
    /\ buffer.compressed_bit_count = 2

-----------------------------------------------------------------------------
(* Stray bits above the count, checked under SpecBuf *)

\* the register of b has a set bit at a position >= its count
HasStrayBits(b) ==
    \E i \in BitPos : i >= b.compressed_bit_count /\ b.compressed_bits[i] = 1

\* the 8 oldest queued bits of b, read as a byte (for a count in 8..32)
OldestByte(b) ==
    LET low == b.compressed_bit_count - 8
    IN  b.compressed_bits[low] + 2 * b.compressed_bits[low + 1]
        + 4 * b.compressed_bits[low + 2] + 8 * b.compressed_bits[low + 3]
        + 16 * b.compressed_bits[low + 4] + 32 * b.compressed_bits[low + 5]
        + 64 * b.compressed_bits[low + 6] + 128 * b.compressed_bits[low + 7]

\* C20: stray high bits never reach the output: a read from a register that
\* holds set bits at positions >= the count, the count being within the
\* register, returns the 8 oldest queued bits only, and leaves no set bit at
\* a position >= the new count while keeping the bits below it.
C20_StrayBitsNotEmitted ==
    (/\ last_op.op = "next"
     /\ HasStrayBits(prev_buffer)
     /\ prev_buffer.compressed_bit_count \in 8..Width) =>
        /\ ~last_op.panic
        /\ last_op.ret = Some(OldestByte(prev_buffer))
        /\ ~HasStrayBits(buffer)
        /\ \A i \in 0..(buffer.compressed_bit_count - 1) :
              buffer.compressed_bits[i] = prev_buffer.compressed_bits[i]

\* C20 witness: the code 0b110 declared 2 bits long was written four times,
\* leaving a stray bit at position 8 above the 8 queued bits; the read
\* returned 0b11111110 and left the register 0
C20_StrayBitTruncated ==
    /\ last_op.op = "next"
    /\ prev_buffer = [compressed_bits |-> U32(510), compressed_bit_count |-> 8]
    /\ last_op.ret = Some(254)
    /\ buffer = NewBuffer

====
